---- MODULE Spec2Model ----
(***************************************************************************)
(* The connect-attempt state machine of squangle's ConnectOperationImpl    *)
(* (squangle/mysql_client/ConnectOperation.cpp) on top of the operation    *)
(* engine (OperationImpl), an event loop with a task queue, two timers     *)
(* and one socket registration.                                            *)
(*                                                                         *)
(* Time is counted in milliseconds by the clock `now`; the clock stands    *)
(* still until run(), so the operation's elapsed time opElapsed() is `now`.*)
(***************************************************************************)
EXTENDS Integers, Sequences, FiniteSets, TLC

\* ----------------------------------------------------------------- bounds
\* The clock runs from 0 to MaxTime.
MaxTime == 3
\* Durations handed to the timeout setters: 0 .. MaxDur.
MaxDur == 2
\* Values handed to setConnectAttempts: 0 .. MaxAttempts.
MaxAttempts == 3
\* Statements of the multi-query a fetch runs, and rows of a result set.
MaxStatements == 2
MaxRows == 2

Durations == 0 .. MaxDur
AttemptValues == 0 .. MaxAttempts

\* An optional value (std::optional / folly::Optional / a nullable pointer).
None == << >>
Some(v) == << v >>

Min(a, b) == IF a <= b THEN a ELSE b

\* ------------------------------------------------------------------ state
VARIABLES
  state,                \* OperationState
  result,               \* OperationResult, "None" until completion
  attempts_made_,       \* uint32_t attempts_made_
  conn_options_,        \* ConnectionOptions conn_options_
  killOnQueryTimeout_,  \* bool killOnQueryTimeout_
  timeout_,             \* OperationImpl's timeout (getTimeout())
  timer,                \* armed per-attempt timer: None or Some(deadline)
  tcp_timeout_handler_, \* armed TCP-handshake timer: None or Some(deadline)
  registered,           \* the socket descriptor is registered with the loop
  queue,                \* tasks posted to the event loop by runInThread
  now,                  \* the I/O thread's monotonic clock, in ms
  connect_callback_,    \* the user connect callback is held (set before run)
  active_in_client_,    \* bool active_in_client_
  initialized,          \* conn().hasInitialized()
  hsDone,               \* conn().isDoneWithTcpHandShake()
  certInstalled,        \* conn() holds mysqlCertValidator with &getOp()
  error,                \* the error recorded on the operation
  opAlive,              \* the ConnectOperation object has not been destroyed
  sync,                 \* the connection is a SyncConnection
  usingUnixSocket,      \* !conn_key_->unixSocketPath().empty()
  opType,               \* getOp().getOperationType()
  \* what the collaborators observed
  cbCount,              \* invocations of the user connect callback
  refsRemoved,          \* calls of client().activeConnectionRemoved
  logFail,              \* calls of client().logConnectionFailure
  logSucc,              \* calls of client().logConnectionSuccess
  sessionStored,        \* conn().storeSession was called
  certRet,              \* last value returned by mysqlCertValidator
  setterAt,             \* the state in which the public setter call was made
  ev,                   \* the last handler that ran and what it did
  fetch                 \* a FetchOperationImpl and what the loop holds for it

connectVars == << state, result, attempts_made_, conn_options_, killOnQueryTimeout_,
           timeout_, timer, tcp_timeout_handler_, registered, queue, now,
           connect_callback_, active_in_client_, initialized, hsDone,
           certInstalled, error, opAlive, sync, usingUnixSocket, opType,
           cbCount, refsRemoved, logFail, logSucc, sessionStored, certRet,
           setterAt, ev >>

vars == << connectVars, fetch >>

OperationStates == {"Unstarted", "Pending", "Cancelling", "Completed"}
OperationResults == {"Succeeded", "Failed", "TimedOut", "Cancelled"}

\* The whole state as one record, so that a handler and the calls it makes
\* are functions from state to state.
Cur ==
  [ state |-> state, result |-> result, attempts_made_ |-> attempts_made_,
    conn_options_ |-> conn_options_,
    killOnQueryTimeout_ |-> killOnQueryTimeout_, timeout_ |-> timeout_,
    timer |-> timer, tcp_timeout_handler_ |-> tcp_timeout_handler_,
    registered |-> registered, queue |-> queue, now |-> now,
    connect_callback_ |-> connect_callback_,
    active_in_client_ |-> active_in_client_, initialized |-> initialized,
    hsDone |-> hsDone, certInstalled |-> certInstalled, error |-> error,
    opAlive |-> opAlive, sync |-> sync, usingUnixSocket |-> usingUnixSocket,
    opType |-> opType, cbCount |-> cbCount, refsRemoved |-> refsRemoved,
    logFail |-> logFail, logSucc |-> logSucc,
    sessionStored |-> sessionStored, certRet |-> certRet,
    setterAt |-> setterAt, ev |-> ev ]

Commit(s) ==
  /\ state' = s.state
  /\ result' = s.result
  /\ attempts_made_' = s.attempts_made_
  /\ conn_options_' = s.conn_options_
  /\ killOnQueryTimeout_' = s.killOnQueryTimeout_
  /\ timeout_' = s.timeout_
  /\ timer' = s.timer
  /\ tcp_timeout_handler_' = s.tcp_timeout_handler_
  /\ registered' = s.registered
  /\ queue' = s.queue
  /\ now' = s.now
  /\ connect_callback_' = s.connect_callback_
  /\ active_in_client_' = s.active_in_client_
  /\ initialized' = s.initialized
  /\ hsDone' = s.hsDone
  /\ certInstalled' = s.certInstalled
  /\ error' = s.error
  /\ opAlive' = s.opAlive
  /\ sync' = s.sync
  /\ usingUnixSocket' = s.usingUnixSocket
  /\ opType' = s.opType
  /\ cbCount' = s.cbCount
  /\ refsRemoved' = s.refsRemoved
  /\ logFail' = s.logFail
  /\ logSucc' = s.logSucc
  /\ sessionStored' = s.sessionStored
  /\ certRet' = s.certRet
  /\ setterAt' = s.setterAt
  /\ ev' = s.ev
  /\ UNCHANGED fetch

\* The record of the step that led to the current state: which handler ran
\* (h), the operation state it found (st), whether it ended in an exception
\* (threw), the attempt result it handed to attemptFailed/attemptSucceeded
\* (res), what attemptFailed decided (af: "complete" or "retry"),
\* attempts_made_ as the handler found it (pre), whether runInThread refused
\* the task it posted (rejected), and for a timer expiry the value of
\* client().callbackDelayMicrosAvg() the handler read (cbDelay), and whether
\* the connect callback was called with something still armed (cbArmed),
\* and whether the DCHECK of specializedCompleteOperation was evaluated and
\* found false (dcheck): a build that keeps DCHECKs stops the process there,
\* a build without them goes on, and it is the latter the model follows.
NoEv(h, s) ==
  [ h |-> h, st |-> s.state, threw |-> FALSE, res |-> "None", af |-> "none",
    pre |-> s.attempts_made_, rejected |-> FALSE, cbDelay |-> 0,
    cbArmed |-> FALSE, dcheck |-> FALSE ]

Begin(h) == [Cur EXCEPT !.ev = NoEv(h, Cur)]

\* The library's default timeout (a command-line flag): taken one below the
\* largest duration, so that a setter can go below it and above it.
DefaultTimeout == MaxDur - 1

\* ConnectionOptions as constructed: the timeouts at the library default,
\* one attempt, every optional setting absent.
DefaultOptions ==
  [ timeout |-> DefaultTimeout, totalTimeout |-> DefaultTimeout,
    queryTimeout |-> DefaultTimeout,
    connectAttempts |-> 1, connectTcpTimeout |-> None,
    sniServerName |-> None, dscp |-> None, sslOptionsProvider |-> FALSE,
    certValidationCallback |-> FALSE, resetConnBeforeClose |-> FALSE,
    delayedResetConn |-> FALSE, changeUser |-> FALSE ]

NoError == [ errno |-> "0", msg |-> << >> ]

\* ------------------------------------------------ program constants
\* FLAGS_async_mysql_connect_tcp_timeout_micros, the TCP-handshake timeout
\* used when conn_options_ holds none (in ms here).
FLAGS_async_mysql_connect_tcp_timeout == 1
\* kCallbackDelayStallThresholdUs: the loop counts as stalled from 50 ms on.
kCallbackDelayStallThresholdUs == 50000
\* Values of client().callbackDelayMicrosAvg() around the threshold.
CbDelays ==
  { 0, kCallbackDelayStallThresholdUs - 1, kCallbackDelayStallThresholdUs,
    kCallbackDelayStallThresholdUs + 10000 }

\* ------------------------------------------------ operation engine
opElapsed(s) == s.now

\* hasOpElapsed(d): the operation has been running for more than d.
hasOpElapsed(s, d) == opElapsed(s) > d

isEventBaseSet(s) == ~s.sync

\* OperationImpl::setTimeout: store the timeout and recompute the deadline
\* of the attempt that is waiting, if one is.
OperationImpl_setTimeout(s, t) ==
  [s EXCEPT !.timeout_ = t,
            !.timer = IF s.timer = None THEN None
                      ELSE IF t = 0 THEN None ELSE Some(t)]

setTimeoutInternal(s, t) == [s EXCEPT !.timeout_ = t]

\* waitForActionable: register the socket for the readiness the driver
\* asked for and schedule the operation's timeout, if it has one.
waitForActionable(s) ==
  [s EXCEPT !.registered = TRUE,
            !.timer = IF s.timeout_ = 0 THEN None ELSE Some(s.timeout_)]

\* removeClientReference leaving active_in_client_ as it was.
removeClientReference_keepsFlag(s) ==
  IF s.active_in_client_
  THEN [s EXCEPT !.refsRemoved = @ + 1]
  ELSE s

removeClientReference(s) ==
  IF s.active_in_client_
  THEN [s EXCEPT !.active_in_client_ = FALSE, !.refsRemoved = @ + 1]
  ELSE s

logConnectCompleted(s, res) ==
  IF ~s.initialized THEN s
  ELSE IF res = "Succeeded" THEN [s EXCEPT !.logSucc = @ + 1]
  ELSE [s EXCEPT !.logFail = @ + 1]

\* maybeStoreSSLSession without the look at the result.
maybeStoreSSLSession_anyResult(s) ==
  IF ~s.initialized THEN s
  ELSE IF s.conn_options_.sslOptionsProvider
  THEN [s EXCEPT !.sessionStored = TRUE]
  ELSE s

maybeStoreSSLSession(s) ==
  IF s.result # "Succeeded" \/ ~s.initialized THEN s
  ELSE IF s.conn_options_.sslOptionsProvider
  THEN [s EXCEPT !.sessionStored = TRUE]
  ELSE s

\* What the operation holds of the event loop: the socket registration, the
\* operation timer, the TCP-handshake timer.
Armed(s) ==
  s.registered \/ s.timer # None \/ s.tcp_timeout_handler_ # None

\* specializedCompleteOperation without the cancelTimeout of the TCP timer.
specializedCompleteOperation_keepsTcpTimer(s) ==
  LET s1 == IF s.opType = "Connect" THEN maybeStoreSSLSession(s) ELSE s
      s2a == logConnectCompleted(s1, s1.result)
      s3 == [s2a EXCEPT !.ev.dcheck =
                          ~(s2a.initialized \/ s2a.result = "Cancelled")]
      s4 == IF s3.connect_callback_
            THEN [s3 EXCEPT !.cbCount = @ + 1, !.connect_callback_ = FALSE,
                            !.ev.cbArmed = Armed(s3)]
            ELSE s3
  IN  removeClientReference(s4)

\* specializedCompleteOperation with the callback left in place after the
\* call.
specializedCompleteOperation_keepsCallback(s) ==
  LET s1 == IF s.opType = "Connect" THEN maybeStoreSSLSession(s) ELSE s
      s2 == [s1 EXCEPT !.tcp_timeout_handler_ = None]
      s2a == logConnectCompleted(s2, s2.result)
      s3 == [s2a EXCEPT !.ev.dcheck =
                          ~(s2a.initialized \/ s2a.result = "Cancelled")]
      s4 == IF s3.connect_callback_
            THEN [s3 EXCEPT !.cbCount = @ + 1, !.ev.cbArmed = Armed(s3)]
            ELSE s3
  IN  removeClientReference(s4)

specializedCompleteOperation(s) ==
  LET s1 == IF s.opType = "Connect" THEN maybeStoreSSLSession(s) ELSE s
      s2 == [s1 EXCEPT !.tcp_timeout_handler_ = None]
      s2a == logConnectCompleted(s2, s2.result)
      s3 == [s2a EXCEPT !.ev.dcheck =
                          ~(s2a.initialized \/ s2a.result = "Cancelled")]
      s4 == IF s3.connect_callback_
            THEN [s3 EXCEPT !.cbCount = @ + 1, !.connect_callback_ = FALSE,
                            !.ev.cbArmed = Armed(s3)]
            ELSE s3
  IN  removeClientReference(s4)

\* completeOperationInner: enter Completed with the result, unregister the
\* socket, cancel the timeout, then run the operation's completion hook.
completeOperationInner(s, res) ==
  specializedCompleteOperation(
    [s EXCEPT !.state = "Completed", !.result = res, !.registered = FALSE,
              !.timer = None])

\* completeOperation: an operation completes once; a later call is ignored.
completeOperation(s, res) ==
  IF s.state = "Completed" THEN s ELSE completeOperationInner(s, res)

\* specializedRun on a connection whose runInThread may refuse the task
\* whatever the kind of connection.
specializedRun_mayRefuseInline(s, accepted) ==
  IF accepted
  THEN [s EXCEPT !.queue = Append(@, "specializedRunImpl")]
  ELSE completeOperationInner([s EXCEPT !.ev.rejected = TRUE], "Failed")

\* runInThread on an AsyncConnection posts the task (accepted) or refuses
\* it; on a SyncConnection the task runs inline, which the model renders as
\* a queued task that nothing else may overtake (see Inline).
specializedRun(s, accepted) ==
  IF accepted \/ s.sync
  THEN [s EXCEPT !.queue = Append(@, "specializedRunImpl")]
  ELSE completeOperationInner([s EXCEPT !.ev.rejected = TRUE], "Failed")

\* shouldCompleteOperation granting one attempt more than connectAttempts.
shouldCompleteOperation_oneMore(s, res) ==
  \/ s.attempts_made_ > s.conn_options_.connectAttempts
  \/ res = "Cancelled"
  \/ hasOpElapsed(s, s.conn_options_.totalTimeout + 1)

shouldCompleteOperation(s, res) ==
  \/ s.attempts_made_ >= s.conn_options_.connectAttempts
  \/ res = "Cancelled"
  \/ hasOpElapsed(s, s.conn_options_.totalTimeout + 1)

\* attemptFailed re-arming with perAttemptTimeout + elapsed, uncapped.
attemptFailed_uncapped(s, res, accepted) ==
  LET s1 == [s EXCEPT !.attempts_made_ = @ + 1, !.ev.res = res]
  IN  IF shouldCompleteOperation(s1, res)
      THEN completeOperation([s1 EXCEPT !.ev.af = "complete"], res)
      ELSE LET s2 == logConnectCompleted(s1, res)
               s3 == [s2 EXCEPT !.tcp_timeout_handler_ = None,
                                !.registered = FALSE,
                                !.timer = None,
                                !.hsDone = FALSE,
                                !.ev.af = "retry"]
               s4 == setTimeoutInternal(s3,
                       s3.conn_options_.timeout + opElapsed(s3))
           IN  specializedRun(s4, accepted)

\* attemptFailed retrying without the cancelTimeout of the TCP timer.
attemptFailed_keepsTcpTimer(s, res, accepted) ==
  LET s1 == [s EXCEPT !.attempts_made_ = @ + 1, !.ev.res = res]
  IN  IF shouldCompleteOperation(s1, res)
      THEN completeOperation([s1 EXCEPT !.ev.af = "complete"], res)
      ELSE LET s2 == logConnectCompleted(s1, res)
               s3 == [s2 EXCEPT !.registered = FALSE,
                                !.timer = None,
                                !.hsDone = FALSE,
                                !.ev.af = "retry"]
               s4 == setTimeoutInternal(s3,
                       Min(s3.conn_options_.timeout + opElapsed(s3),
                           s3.conn_options_.totalTimeout))
           IN  specializedRun(s4, accepted)

attemptFailed(s, res, accepted) ==
  LET s1 == [s EXCEPT !.attempts_made_ = @ + 1, !.ev.res = res]
  IN  IF shouldCompleteOperation(s1, res)
      THEN completeOperation([s1 EXCEPT !.ev.af = "complete"], res)
      ELSE LET s2 == logConnectCompleted(s1, res)
               s3 == [s2 EXCEPT !.tcp_timeout_handler_ = None,
                                !.registered = FALSE,
                                !.timer = None,
                                !.hsDone = FALSE,
                                !.ev.af = "retry"]
               s4 == setTimeoutInternal(s3,
                       Min(s3.conn_options_.timeout + opElapsed(s3),
                           s3.conn_options_.totalTimeout))
           IN  specializedRun(s4, accepted)

attemptSucceeded(s, res) ==
  completeOperation([s EXCEPT !.attempts_made_ = @ + 1, !.ev.res = res], res)

\* One actionable() tick. tryConnect answers status, leaves the TCP handshake
\* done or not (hs) and the connection with a valid descriptor or not (fdOk).
actionable(s, status, fdOk, hs, accepted) ==
  LET s0 == [s EXCEPT !.hsDone = hs]
  IN  IF status = "ERROR"
      THEN attemptFailed(
             [s0 EXCEPT !.error = [errno |-> "MYSQL_ERROR",
                                   msg |-> << "server error" >>]],
             "Failed", accepted)
      ELSE LET s1 == IF (s0.hsDone \/ s0.usingUnixSocket)
                        /\ s0.tcp_timeout_handler_ # None
                     THEN [s0 EXCEPT !.tcp_timeout_handler_ = None]
                     ELSE s0
           IN  IF ~fdOk
               THEN attemptFailed(
                      [s1 EXCEPT !.error =
                         [errno |-> "SQ_INITIALIZATION_FAILED",
                          msg |-> << "mysql_get_socket_descriptor returned an invalid descriptor" >>]],
                      "Failed", accepted)
               ELSE IF status = "DONE"
               THEN attemptSucceeded(s1, "Succeeded")
               ELSE waitForActionable(s1)

specializedRunImpl(s, status, fdOk, hs, accepted) ==
  LET s1 == removeClientReference(
              [s EXCEPT !.initialized = TRUE, !.hsDone = FALSE])
      s2 == IF s1.conn_options_.certValidationCallback
            THEN [s1 EXCEPT !.certInstalled = TRUE]
            ELSE s1
      t  == IF s2.conn_options_.connectTcpTimeout = None
            THEN FLAGS_async_mysql_connect_tcp_timeout
            ELSE s2.conn_options_.connectTcpTimeout[1]
      s3 == IF t # 0 /\ isEventBaseSet(s2)
            THEN [s2 EXCEPT !.tcp_timeout_handler_ = Some(s2.now + t)]
            ELSE s2
  IN  actionable(s3, status, fdOk, hs, accepted)

\* timeoutHandler that records the error and leaves the attempt as it is.
timeoutHandler_onlyRecords(s, isTcpTimeout, isPoolConnection, cbDelayUs, accepted) ==
  [s EXCEPT !.error = [errno |-> "CR_SERVER_LOST",
                       msg |-> << "timed out" >>]]

\* timeoutHandler counting the loop as stalled only beyond the threshold.
timeoutHandler_lateStall(s, isTcpTimeout, isPoolConnection, cbDelayUs, accepted) ==
  LET stalled == cbDelayUs > kCallbackDelayStallThresholdUs
      head == IF stalled
              THEN IF isPoolConnection
                   THEN "[SQ_ERRNO_CONN_TIMEOUT_LOOP_STALLED](Mysql Client)ConnectPool to host:port timed out"
                   ELSE "[SQ_ERRNO_CONN_TIMEOUT_LOOP_STALLED](Mysql Client)Connect to host:port timed out"
              ELSE IF isPoolConnection
                   THEN "[SQ_ERRNO_CONN_TIMEOUT](Mysql Client)ConnectPool to host:port timed out"
                   ELSE "[SQ_ERRNO_CONN_TIMEOUT](Mysql Client)Connect to host:port timed out"
      parts == << head >>
               \o (IF isPoolConnection THEN << >> ELSE << "at stage" >>)
               \o << "(took Nms, timeout was Nms)" >>
               \o (IF stalled THEN << "(CLIENT_OVERLOADED: cb delay Nms, N active conns)" >>
                   ELSE << >>)
               \o << IF isTcpTimeout THEN "(TcpTimeout:1)" ELSE "(TcpTimeout:0)" >>
  IN  attemptFailed(
        [s EXCEPT !.error = [errno |-> "CR_SERVER_LOST", msg |-> parts]],
        "TimedOut", accepted)

\* The timeout message, part by part, and the error it is recorded under.
timeoutHandler(s, isTcpTimeout, isPoolConnection, cbDelayUs, accepted) ==
  LET stalled == cbDelayUs >= kCallbackDelayStallThresholdUs
      head == IF stalled
              THEN IF isPoolConnection
                   THEN "[SQ_ERRNO_CONN_TIMEOUT_LOOP_STALLED](Mysql Client)ConnectPool to host:port timed out"
                   ELSE "[SQ_ERRNO_CONN_TIMEOUT_LOOP_STALLED](Mysql Client)Connect to host:port timed out"
              ELSE IF isPoolConnection
                   THEN "[SQ_ERRNO_CONN_TIMEOUT](Mysql Client)ConnectPool to host:port timed out"
                   ELSE "[SQ_ERRNO_CONN_TIMEOUT](Mysql Client)Connect to host:port timed out"
      parts == << head >>
               \o (IF isPoolConnection THEN << >> ELSE << "at stage" >>)
               \o << "(took Nms, timeout was Nms)" >>
               \o (IF stalled THEN << "(CLIENT_OVERLOADED: cb delay Nms, N active conns)" >>
                   ELSE << >>)
               \o << IF isTcpTimeout THEN "(TcpTimeout:1)" ELSE "(TcpTimeout:0)" >>
  IN  attemptFailed(
        [s EXCEPT !.error = [errno |-> "CR_SERVER_LOST", msg |-> parts]],
        "TimedOut", accepted)

specializedTimeoutTriggered(s, cbDelayUs, accepted) ==
  timeoutHandler(s, FALSE, FALSE, cbDelayUs, accepted)

\* tcpConnectTimeoutTriggered without the look at the handshake.
tcpConnectTimeoutTriggered_unconditional(s, cbDelayUs, accepted) ==
  timeoutHandler(s, TRUE, FALSE, cbDelayUs, accepted)

\* tcpConnectTimeoutTriggered reporting the expiry as a per-attempt timeout.
tcpConnectTimeoutTriggered_untagged(s, cbDelayUs, accepted) ==
  IF ~s.hsDone
  THEN timeoutHandler(s, FALSE, FALSE, cbDelayUs, accepted)
  ELSE s

tcpConnectTimeoutTriggered(s, cbDelayUs, accepted) ==
  IF ~s.hsDone
  THEN timeoutHandler(s, TRUE, FALSE, cbDelayUs, accepted)
  ELSE s

\* ------------------------------------------------ public setters
\* CHECK_THROW(state() == OperationState::Unstarted, OperationStateException)
Throw(s) == [s EXCEPT !.ev.threw = TRUE]

setDefaultQueryTimeout(s, t) ==
  IF s.state # "Unstarted" THEN Throw(s)
  ELSE [s EXCEPT !.conn_options_.queryTimeout = t]

setSniServerName(s, name) ==
  IF s.state # "Unstarted" THEN Throw(s)
  ELSE [s EXCEPT !.conn_options_.sniServerName = Some(name)]

enableResetConnBeforeClose(s) ==
  [s EXCEPT !.conn_options_.resetConnBeforeClose = TRUE]

enableDelayedResetConn(s) ==
  [s EXCEPT !.conn_options_.delayedResetConn = TRUE]

enableChangeUser(s) == [s EXCEPT !.conn_options_.changeUser = TRUE]

setCertValidationCallback(s, callback) ==
  IF s.state # "Unstarted" THEN Throw(s)
  ELSE [s EXCEPT !.conn_options_.certValidationCallback = callback]

setTimeout(s, t) ==
  OperationImpl_setTimeout([s EXCEPT !.conn_options_.timeout = t], t)

setTcpTimeout(s, t) == [s EXCEPT !.conn_options_.connectTcpTimeout = Some(t)]

setTotalTimeout(s, total) ==
  OperationImpl_setTimeout([s EXCEPT !.conn_options_.totalTimeout = total],
                           Min(s.timeout_, total))

setConnectAttempts(s, n) ==
  IF s.state # "Unstarted" THEN Throw(s)
  ELSE [s EXCEPT !.conn_options_.connectAttempts = n]

setDscp(s, d) ==
  IF s.state # "Unstarted" THEN Throw(s)
  ELSE [s EXCEPT !.conn_options_.dscp = Some(d)]

setKillOnQueryTimeout(s, b) ==
  IF s.state # "Unstarted" THEN Throw(s)
  ELSE [s EXCEPT !.killOnQueryTimeout_ = b]

setSSLOptionsProviderBase(s) ==
  IF s.state # "Unstarted" THEN Throw(s) ELSE s

setSSLOptionsProvider(s, provider) ==
  IF s.state # "Unstarted" THEN Throw(s)
  ELSE [s EXCEPT !.conn_options_.sslOptionsProvider = provider]

\* setConnectionOptions calls the setters in the order of the source; the
\* first exception ends it, with what the earlier setters did left in place.
setConnectionOptions(s, o) ==
  LET s1 == setTimeout(s, o.timeout)
      s2 == setDefaultQueryTimeout(s1, o.queryTimeout)
      s3 == IF s2.ev.threw THEN s2
            ELSE setConnectAttempts(s2, o.connectAttempts)
      s4 == IF s3.ev.threw \/ o.dscp = None THEN s3 ELSE setDscp(s3, o.dscp[1])
      s5 == IF s4.ev.threw THEN s4 ELSE setTotalTimeout(s4, o.totalTimeout)
      s6 == IF s5.ev.threw \/ o.connectTcpTimeout = None THEN s5
            ELSE setTcpTimeout(s5, o.connectTcpTimeout[1])
      s7 == IF s6.ev.threw \/ o.sniServerName = None THEN s6
            ELSE setSniServerName(s6, o.sniServerName[1])
      s8 == IF s7.ev.threw \/ ~o.sslOptionsProvider THEN s7
            ELSE setSSLOptionsProvider(s7, o.sslOptionsProvider)
      s9 == IF s8.ev.threw \/ ~o.certValidationCallback THEN s8
            ELSE setCertValidationCallback(s8, o.certValidationCallback)
  IN  s9

\* The ConnectionOptions objects handed to setConnectionOptions.
OptionsInputs ==
  { [DefaultOptions EXCEPT !.timeout = t, !.totalTimeout = tt,
                           !.connectAttempts = MaxAttempts,
                           !.connectTcpTimeout = tcp,
                           !.sslOptionsProvider = p,
                           !.certValidationCallback = p,
                           !.sniServerName = IF p THEN Some(1) ELSE None,
                           !.dscp = IF p THEN Some(1) ELSE None] :
      t \in {1}, tt \in {1, MaxDur}, tcp \in {None}, p \in BOOLEAN }

\* ------------------------------------------------ actions
\* attempts_made_ is a counter without a bound of its own: the model follows
\* it up to one beyond the largest connectAttempts.
CanAttempt == attempts_made_ <= MaxAttempts

\* On a SyncConnection a posted task runs inline: until it has run, no other
\* thread's call and no event comes between.
Inline == sync /\ queue # << >>

\* One operation is followed through one public setter call, made at any
\* moment of its life, before or after run().
UserCall == opAlive /\ ~Inline /\ setterAt = "None"

Setter(h) == [Begin(h) EXCEPT !.setterAt = state]

SetDefaultQueryTimeout ==
  /\ UserCall
  /\ \E t \in {0, MaxDur} :
       Commit(setDefaultQueryTimeout(Setter("setDefaultQueryTimeout"), t))

SetSniServerName ==
  /\ UserCall
  /\ Commit(setSniServerName(Setter("setSniServerName"), 1))

EnableResetConnBeforeClose ==
  /\ UserCall
  /\ Commit(enableResetConnBeforeClose(Setter("enableResetConnBeforeClose")))

EnableDelayedResetConn ==
  /\ UserCall
  /\ Commit(enableDelayedResetConn(Setter("enableDelayedResetConn")))

EnableChangeUser ==
  /\ UserCall
  /\ Commit(enableChangeUser(Setter("enableChangeUser")))

SetCertValidationCallback ==
  /\ UserCall
  /\ Commit(setCertValidationCallback(Setter("setCertValidationCallback"),
                                       TRUE))

SetTimeout ==
  /\ UserCall
  /\ \E t \in Durations : Commit(setTimeout(Setter("setTimeout"), t))

SetTcpTimeout ==
  /\ UserCall
  /\ \E t \in Durations : Commit(setTcpTimeout(Setter("setTcpTimeout"), t))

SetTotalTimeout ==
  /\ UserCall
  /\ \E t \in Durations : Commit(setTotalTimeout(Setter("setTotalTimeout"), t))

SetConnectAttempts ==
  /\ UserCall
  /\ \E n \in AttemptValues :
       Commit(setConnectAttempts(Setter("setConnectAttempts"), n))

SetDscp ==
  /\ UserCall
  /\ Commit(setDscp(Setter("setDscp"), 1))

SetKillOnQueryTimeout ==
  /\ UserCall
  /\ Commit(setKillOnQueryTimeout(Setter("setKillOnQueryTimeout"), TRUE))

SetSSLOptionsProviderBase ==
  /\ UserCall
  /\ Commit(setSSLOptionsProviderBase(Setter("setSSLOptionsProviderBase")))

SetSSLOptionsProvider ==
  /\ UserCall
  /\ Commit(setSSLOptionsProvider(Setter("setSSLOptionsProvider"), TRUE))

SetConnectionOptions ==
  /\ UserCall
  /\ \E o \in OptionsInputs :
       Commit(setConnectionOptions(Setter("setConnectionOptions"), o))

\* run(): Unstarted -> Pending, then specializedRun().
Run ==
  /\ opAlive /\ state = "Unstarted"
  /\ \E accepted \in BOOLEAN :
       Commit(specializedRun([Begin("run") EXCEPT !.state = "Pending"],
                             accepted))

\* cancel(): a Pending operation becomes Cancelling and its completion with
\* Cancelled is handed to the I/O thread.
Cancel ==
  /\ opAlive /\ ~Inline /\ state = "Pending"
  /\ Commit([Begin("cancel") EXCEPT !.state = "Cancelling",
                                    !.queue = Append(@, "cancel")])

\* What tryConnect may answer: a SyncConnection's handler never answers
\* PENDING; a connect that is DONE has its TCP handshake behind it, and a
\* handshake once done stays done for the attempt.
TryConnectAnswers(done) ==
  { a \in [ status : IF sync THEN {"DONE", "ERROR"}
                     ELSE {"DONE", "ERROR", "PENDING"},
            fdOk : BOOLEAN, hs : BOOLEAN ] :
      /\ a.status = "DONE" => a.hs
      /\ done => a.hs }

\* The event loop runs the posted specializedRunImpl task.
RunImplTask ==
  /\ queue # << >> /\ Head(queue) = "specializedRunImpl"
  /\ CanAttempt
  /\ \E a \in TryConnectAnswers(FALSE), accepted \in BOOLEAN :
       Commit(specializedRunImpl(
                [Begin("specializedRunImpl") EXCEPT !.queue = Tail(@)],
                a.status, a.fdOk, a.hs, accepted))

\* The event loop runs the posted completeOperation(Cancelled) task.
CancelTask ==
  /\ queue # << >> /\ Head(queue) = "cancel"
  /\ Commit(completeOperation(
              [Begin("cancelTask") EXCEPT !.queue = Tail(@)], "Cancelled"))

\* The registered socket becomes ready: the registration is consumed and
\* the loop re-enters actionable().
SocketReady ==
  /\ registered
  /\ CanAttempt
  /\ \E a \in TryConnectAnswers(hsDone), accepted \in BOOLEAN :
       Commit(actionable([Begin("actionable") EXCEPT !.registered = FALSE],
                         a.status, a.fdOk, a.hs, accepted))

\* The per-attempt timer expires.
TimeoutTriggered ==
  /\ timer # None /\ now >= timer[1]
  /\ CanAttempt
  /\ \E d \in CbDelays, accepted \in BOOLEAN :
       Commit(specializedTimeoutTriggered(
                [Begin("specializedTimeoutTriggered")
                   EXCEPT !.timer = None, !.ev.cbDelay = d],
                d, accepted))

\* The TCP-handshake timer expires.
TcpTimeoutTriggered ==
  /\ tcp_timeout_handler_ # None /\ now >= tcp_timeout_handler_[1]
  /\ CanAttempt
  /\ \E d \in CbDelays, accepted \in BOOLEAN :
       Commit(tcpConnectTimeoutTriggered(
                [Begin("tcpConnectTimeoutTriggered")
                   EXCEPT !.tcp_timeout_handler_ = None, !.ev.cbDelay = d],
                d, accepted))

\* Time passes while the operation has something outstanding.
Tick ==
  /\ now < MaxTime
  /\ opAlive /\ state # "Unstarted"
  /\ \/ state # "Completed" \/ queue # << >> \/ registered
     \/ timer # None \/ tcp_timeout_handler_ # None
  /\ Commit([Begin("tick") EXCEPT !.now = @ + 1])

\* ~ConnectOperationImpl(), once nothing of the operation is outstanding.
Destroy ==
  /\ opAlive /\ state \in {"Unstarted", "Completed"}
  /\ queue = << >> /\ ~registered
  /\ timer = None /\ tcp_timeout_handler_ = None
  /\ Commit(removeClientReference(
              [Begin("~ConnectOperationImpl") EXCEPT !.opAlive = FALSE]))

\* mysqlCertValidator(server_cert, context, errptr), called by the driver
\* with the context installed by specializedRunImpl; the calls followed are
\* those made on the connection that outlives the attempt. weak_from_this().lock()
\* gives a handle while the operation lives; on a destroyed operation the
\* read is of a dead object: the handle is null, or whatever the freed
\* memory yields (locked).
mysqlCertValidator(s, locked, cbRet) ==
  [s EXCEPT !.certRet =
     Some([ alive |-> s.opAlive, locked |-> locked, cb |-> cbRet,
            ret |-> IF ~locked THEN 0 ELSE IF cbRet THEN 0 ELSE 1 ])]

ValidateCert ==
  /\ certInstalled
  /\ state = "Completed"
  /\ \E locked \in BOOLEAN, cbRet \in BOOLEAN :
       /\ opAlive => locked
       /\ Commit(mysqlCertValidator(Begin("mysqlCertValidator"), locked,
                                    cbRet))

\* ------------------------------------------------ fetch operation
\* The FetchOperationImpl of a multi-query of `statements` statements, as
\* constructed: the members with their initializers, the OperationImpl
\* state, and what the I/O thread has outstanding for it.
FetchActions ==
  {"StartQuery", "InitFetch", "Fetch", "WaitForConsumer", "CompleteQuery",
   "CompleteOperation"}

NoFev ==
  [ h |-> "create", action |-> "StartQuery", verb |-> "none", cb |-> "none",
    atNotify |-> "none", rows |-> FALSE, cancelled |-> FALSE,
    resumedAs |-> "none", paused |-> "StartQuery", threw |-> FALSE,
    ret |-> None, unchanged |-> TRUE ]

FetchOperationImpl(n) ==
  [ state |-> "Unstarted",
    result |-> "None",
    statements |-> n,
    current_row_stream_ |-> None,
    query_executed_ |-> FALSE,
    num_queries_executed_ |-> 0,
    num_current_query_ |-> 0,
    total_result_size_ |-> 0,
    mysql_errno_ |-> 0,
    cancel_ |-> FALSE,
    active_fetch_action_ |-> "StartQuery",
    paused_action_ |-> "StartQuery",
    running |-> FALSE,       \* the I/O thread is inside actionable()
    waiting |-> FALSE,       \* waitForActionable(): socket registered
    resumeQueued |-> FALSE,  \* resume() has posted resumeImpl
    resumedAs |-> "none",    \* action restored by a resumeImpl not yet acted on
    notifications |-> << >>, \* the notify* calls made, in order
    fev |-> NoFev ]

\* The record of the fetch step that led to the current state: the block or
\* call that ran (h), the active action, cancel flag and paused action it
\* found (action, cancelled, paused), the handler verb it issued (verb), what
\* the consumer did inside the notification (cb) and the active action at
\* that notification (atNotify), whether it delivered RowsReady (rows),
\* whether it was the first block after a resumeImpl (resumedAs), and for an
\* accessor call whether it threw, what it returned and whether it left the
\* operation unchanged.
FBegin(f, h) ==
  [f EXCEPT !.fev = [NoFev EXCEPT !.h = h,
                                  !.action = f.active_fetch_action_,
                                  !.cancelled = f.cancel_,
                                  !.paused = f.paused_action_]]

FBlock(f, h) ==
  [FBegin(f, h) EXCEPT !.fev.resumedAs = f.resumedAs, !.resumedAs = "none"]

isPaused(f) == f.active_fetch_action_ = "WaitForConsumer"

\* setFetchAction: the action the fetch carries out next, which for a paused
\* fetch is the saved one that resume restores.
setFetchAction(f, action) ==
  IF isPaused(f)
  THEN [f EXCEPT !.paused_action_ = action]
  ELSE [f EXCEPT !.active_fetch_action_ = action]

\* FetchOperationImpl::cancel with the cancel flag left clear.
FetchOperationImpl_cancel_noFlag(f) ==
  setFetchAction(f, "CompleteQuery")

FetchOperationImpl_cancel(f) ==
  setFetchAction([f EXCEPT !.cancel_ = TRUE], "CompleteQuery")

\* cancel() on the operation: a Pending operation becomes Cancelling and the
\* fetch is told to stop.
FetchCancel(f) ==
  IF f.state = "Pending"
  THEN FetchOperationImpl_cancel([f EXCEPT !.state = "Cancelling"])
  ELSE f

\* pauseForConsumer that saves the action and leaves it active.
pauseForConsumer_staysActive(f) ==
  [f EXCEPT !.paused_action_ = f.active_fetch_action_]

pauseForConsumer(f) ==
  [f EXCEPT !.paused_action_ = f.active_fetch_action_,
            !.active_fetch_action_ = "WaitForConsumer"]

notify(f, kind) ==
  [f EXCEPT !.notifications =
     Append(@, [kind |-> kind, query |-> f.num_current_query_])]

\* What the consumer does inside a notification: nothing, pauseForConsumer()
\* or cancel().
ConsumerChoices == {"none", "pause", "cancel"}

InNotification(f, cb) ==
  LET g == [f EXCEPT !.fev.cb = cb, !.fev.atNotify = f.active_fetch_action_]
  IN  CASE cb = "pause" -> pauseForConsumer(g)
        [] cb = "cancel" -> FetchCancel(g)
        [] OTHER -> g

\* completeOperation(result) of a fetch: the socket is unregistered,
\* notifyFailure is called unless the fetch succeeded, then
\* notifyOperationCompleted.
FetchCompleteOperation(f, res) ==
  LET g == [f EXCEPT !.state = "Completed", !.result = res,
                     !.waiting = FALSE, !.running = FALSE,
                     !.current_row_stream_ = None]
      h == IF res # "Succeeded" THEN notify(g, "Failure") ELSE g
  IN  notify(h, "OperationCompleted")

FetchWaitForActionable(f) == [f EXCEPT !.waiting = TRUE, !.running = FALSE]

\* actionable() leaves its loop when the action has become WaitForConsumer.
LoopOn(f) == [f EXCEPT !.running = ~isPaused(f)]

\* The blocks of actionable()'s loop, one per FetchAction.
\* StartQuery: runQuery for the first statement, nextResult for the others.
StartQueryBlock(f, status) ==
  LET g == [f EXCEPT !.fev.verb = IF f.query_executed_ THEN "nextResult"
                                  ELSE "runQuery"]
  IN  IF status = "PENDING"
      THEN FetchWaitForActionable(g)
      ELSE LET g1 == [g EXCEPT !.query_executed_ = TRUE,
                               !.num_current_query_ = @ + 1]
           IN  IF status = "ERROR"
               THEN [g1 EXCEPT !.mysql_errno_ = 1,
                               !.active_fetch_action_ = "CompleteOperation"]
               ELSE [g1 EXCEPT !.active_fetch_action_ = "InitFetch"]

\* InitFetch announcing only the result sets that have fields.
InitFetchBlock_silentWithoutFields(f, ok, rows, cb) ==
  LET g == [f EXCEPT !.fev.verb = "getResult"]
  IN  IF ~ok
      THEN [g EXCEPT !.mysql_errno_ = 1,
                     !.active_fetch_action_ = "CompleteOperation"]
      ELSE IF rows # None
      THEN LoopOn(InNotification(
             notify([g EXCEPT !.current_row_stream_ = rows,
                              !.active_fetch_action_ = "Fetch"],
                    "InitQuery"), cb))
      ELSE [g EXCEPT !.active_fetch_action_ = "CompleteQuery"]

\* InitFetch: getResult; a result set with fields is fetched, one without
\* goes to CompleteQuery; notifyInitQuery either way.
InitFetchBlock(f, ok, rows, cb) ==
  LET g == [f EXCEPT !.fev.verb = "getResult"]
  IN  IF ~ok
      THEN [g EXCEPT !.mysql_errno_ = 1,
                     !.active_fetch_action_ = "CompleteOperation"]
      ELSE LET g1 == IF rows # None
                     THEN [g EXCEPT !.current_row_stream_ = rows,
                                    !.active_fetch_action_ = "Fetch"]
                     ELSE [g EXCEPT !.active_fetch_action_ = "CompleteQuery"]
           IN  LoopOn(InNotification(notify(g1, "InitQuery"), cb))

\* Fetch: fetchRow; a row is announced by notifyRowsReady.
FetchBlock(f, answer, cb) ==
  LET g == [f EXCEPT !.fev.verb = "fetchRow"]
  IN  CASE answer = "PENDING" -> FetchWaitForActionable(g)
        [] answer = "ERROR" ->
             [g EXCEPT !.mysql_errno_ = 1,
                       !.active_fetch_action_ = "CompleteOperation"]
        [] answer = "end" ->
             [g EXCEPT !.active_fetch_action_ = "CompleteQuery"]
        [] answer = "row" ->
             LET g1 == [g EXCEPT !.current_row_stream_ = Some(@[1] - 1),
                                 !.total_result_size_ = @ + 1,
                                 !.fev.rows = TRUE]
             IN  LoopOn(InNotification(notify(g1, "RowsReady"), cb))

\* CompleteQuery: a statement that failed or was cancelled ends the
\* operation; one that succeeded is counted and announced.
CompleteQueryBlock(f, cb) ==
  IF f.mysql_errno_ # 0 \/ f.cancel_
  THEN [f EXCEPT !.active_fetch_action_ = "CompleteOperation",
                 !.current_row_stream_ = None]
  ELSE LET more == f.num_current_query_ < f.statements
           g == [f EXCEPT !.active_fetch_action_ =
                            IF more THEN "StartQuery" ELSE "CompleteOperation",
                          !.num_queries_executed_ = @ + 1,
                          !.current_row_stream_ = None]
       IN  LoopOn(InNotification(notify(g, "QuerySuccess"), cb))

CompleteOperationBlock(f) ==
  FetchCompleteOperation(f,
    IF f.cancel_ THEN "Cancelled"
    ELSE IF f.mysql_errno_ # 0 THEN "Failed"
    ELSE "Succeeded")

resumeImpl(f) ==
  [f EXCEPT !.active_fetch_action_ = f.paused_action_,
            !.resumedAs = f.paused_action_,
            !.resumeQueued = FALSE,
            !.running = TRUE]

\* numQueriesExecuted returning the index of the current query.
numQueriesExecuted_current(f) ==
  IF f.state = "Pending"
  THEN [f EXCEPT !.fev.threw = TRUE]
  ELSE [f EXCEPT !.fev.ret = Some(f.num_current_query_)]

\* numQueriesExecuted refusing every started operation.
numQueriesExecuted_startedOnly(f) ==
  IF f.state # "Unstarted"
  THEN [f EXCEPT !.fev.threw = TRUE]
  ELSE [f EXCEPT !.fev.ret = Some(f.num_queries_executed_)]

numQueriesExecuted(f) ==
  IF f.state = "Pending"
  THEN [f EXCEPT !.fev.threw = TRUE]
  ELSE [f EXCEPT !.fev.ret = Some(f.num_queries_executed_)]

resultSize(f) ==
  IF f.state = "Unstarted"
  THEN [f EXCEPT !.fev.threw = TRUE]
  ELSE [f EXCEPT !.fev.ret = Some(f.total_result_size_)]

\* An accessor call and whether it left the operation as it found it.
Accessor(f, g) ==
  [g EXCEPT !.fev.unchanged = ([g EXCEPT !.fev = NoFev] = [f EXCEPT !.fev = NoFev])]

\* ------------------------------------------------ fetch actions
FCommit(f) == fetch' = f /\ UNCHANGED connectVars

\* run(): Pending, and the I/O thread enters actionable(); an event loop
\* that refuses the task completes the operation as Failed.
FetchRun ==
  /\ fetch.state = "Unstarted"
  /\ \E accepted \in BOOLEAN :
       LET f == [FBegin(fetch, "run") EXCEPT !.state = "Pending"]
       IN  FCommit(IF accepted
                   THEN [f EXCEPT !.running = TRUE]
                   ELSE FetchCompleteOperation(f, "Failed"))

FetchStartQuery ==
  /\ fetch.running /\ fetch.active_fetch_action_ = "StartQuery"
  /\ \E status \in {"PENDING", "DONE", "ERROR"} :
       FCommit(StartQueryBlock(FBlock(fetch, "StartQuery"), status))

RowCounts == 0 .. MaxRows

FetchInitFetch ==
  /\ fetch.running /\ fetch.active_fetch_action_ = "InitFetch"
  /\ \E ok \in BOOLEAN, rows \in {None} \cup {Some(r) : r \in RowCounts},
        cb \in ConsumerChoices :
       FCommit(InitFetchBlock(FBlock(fetch, "InitFetch"), ok, rows, cb))

FetchFetch ==
  /\ fetch.running /\ fetch.active_fetch_action_ = "Fetch"
  /\ \E answer \in {"PENDING", "ERROR"}
                     \cup (IF fetch.current_row_stream_[1] > 0
                           THEN {"row"} ELSE {"end"}),
        cb \in ConsumerChoices :
       FCommit(FetchBlock(FBlock(fetch, "Fetch"), answer, cb))

FetchCompleteQuery ==
  /\ fetch.running /\ fetch.active_fetch_action_ = "CompleteQuery"
  /\ \E cb \in ConsumerChoices :
       FCommit(CompleteQueryBlock(FBlock(fetch, "CompleteQuery"), cb))

FetchCompleteOperationStep ==
  /\ fetch.running /\ fetch.active_fetch_action_ = "CompleteOperation"
  /\ FCommit(CompleteOperationBlock(FBlock(fetch, "CompleteOperation")))

\* The registered socket becomes ready and the loop re-enters actionable().
FetchSocketReady ==
  /\ fetch.waiting /\ ~fetch.running
  /\ FCommit([FBegin(fetch, "socketReady") EXCEPT !.waiting = FALSE,
                                                  !.running = TRUE])

\* resume(), called by the consumer that paused the fetch.
FetchResume ==
  /\ isPaused(fetch) /\ ~fetch.resumeQueued
  /\ FCommit([FBegin(fetch, "resume") EXCEPT !.resumeQueued = TRUE])

FetchResumeTask ==
  /\ fetch.resumeQueued
  /\ FCommit(resumeImpl(FBegin(fetch, "resumeImpl")))

\* cancel(), called from another thread while the fetch waits for the socket
\* or is paused.
FetchCancelCall ==
  /\ fetch.state = "Pending" /\ ~fetch.running
  /\ FCommit(FetchCancel(FBegin(fetch, "cancel")))

FetchNumQueriesExecuted ==
  /\ ~fetch.running
  /\ LET f == FBegin(fetch, "numQueriesExecuted")
     IN  FCommit(Accessor(f, numQueriesExecuted(f)))

FetchResultSize ==
  /\ ~fetch.running
  /\ LET f == FBegin(fetch, "resultSize")
     IN  FCommit(Accessor(f, resultSize(f)))

\* ------------------------------------------------ specifications
\* The connect operation as constructed, on either kind of connection.
ConnectInit ==
  /\ state = "Unstarted"
  /\ result = "None"
  /\ attempts_made_ = 0
  /\ conn_options_ = DefaultOptions
  /\ killOnQueryTimeout_ = FALSE
  /\ timeout_ = DefaultTimeout
  /\ timer = None
  /\ tcp_timeout_handler_ = None
  /\ registered = FALSE
  /\ queue = << >>
  /\ now = 0
  /\ connect_callback_ = TRUE
  /\ active_in_client_ = TRUE
  /\ initialized = FALSE
  /\ hsDone = FALSE
  /\ certInstalled = FALSE
  /\ error = NoError
  /\ opAlive = TRUE
  /\ sync \in BOOLEAN
  /\ usingUnixSocket \in BOOLEAN
  /\ opType \in {"Connect", "PoolConnect"}
  /\ cbCount = 0
  /\ refsRemoved = 0
  /\ logFail = 0
  /\ logSucc = 0
  /\ sessionStored = FALSE
  /\ certRet = None
  /\ setterAt = "None"
  /\ ev = [ h |-> "create", st |-> "Unstarted", threw |-> FALSE,
            res |-> "None", af |-> "none", pre |-> 0, rejected |-> FALSE,
            cbDelay |-> 0, cbArmed |-> FALSE, dcheck |-> FALSE ]

\* The connect operation on its own: the fetch operation stays as created.
Init ==
  /\ ConnectInit
  /\ fetch = FetchOperationImpl(MaxStatements)

Next ==
  \/ SetDefaultQueryTimeout
  \/ SetSniServerName
  \/ EnableResetConnBeforeClose
  \/ EnableDelayedResetConn
  \/ EnableChangeUser
  \/ SetCertValidationCallback
  \/ SetTimeout
  \/ SetTcpTimeout
  \/ SetTotalTimeout
  \/ SetConnectAttempts
  \/ SetDscp
  \/ SetKillOnQueryTimeout
  \/ SetSSLOptionsProviderBase
  \/ SetSSLOptionsProvider
  \/ SetConnectionOptions
  \/ Run
  \/ Cancel
  \/ RunImplTask
  \/ CancelTask
  \/ SocketReady
  \/ TimeoutTriggered
  \/ TcpTimeoutTriggered
  \/ Tick
  \/ Destroy
  \/ ValidateCert

Spec == Init /\ [][Next]_vars

\* A Connect operation on an AsyncConnection whose event loop runs the
\* tasks posted to it, delivers the expiry of an armed timer, and whose
\* clock advances. Socket readiness is left to the server: the socket may
\* never become ready, or become ready for ever with tryConnect PENDING.
\*
\* Each condition is weak fairness of one action A, written out as
\* []<>~ENABLED <<A>>_vars \/ []<><<A>>_vars with the action's guard for
\* ENABLED and the handler recorded in ev for the step: each of these
\* actions changes the queue, a timer or attempts_made_, so it is enabled
\* exactly when its guard holds, and no other action records its handler.
RunImplTaskDelivered ==
  \/ []<>(~(queue # << >> /\ Head(queue) = "specializedRunImpl" /\ CanAttempt))
  \/ []<><<ev'.h = "specializedRunImpl">>_vars

CancelTaskDelivered ==
  \/ []<>(~(queue # << >> /\ Head(queue) = "cancel"))
  \/ []<><<ev'.h = "cancelTask">>_vars

TimeoutDelivered ==
  \/ []<>(~(timer # None /\ now >= timer[1] /\ CanAttempt))
  \/ []<><<ev'.h = "specializedTimeoutTriggered">>_vars

TcpTimeoutDelivered ==
  \/ []<>(~(tcp_timeout_handler_ # None /\ now >= tcp_timeout_handler_[1]
            /\ CanAttempt))
  \/ []<><<ev'.h = "tcpConnectTimeoutTriggered">>_vars

ConnectLiveInit == Init /\ ~sync /\ opType = "Connect"

ConnectLiveSpec ==
  /\ ConnectLiveInit
  /\ [][Next]_vars
  /\ RunImplTaskDelivered
  /\ CancelTaskDelivered
  /\ TimeoutDelivered
  /\ TcpTimeoutDelivered
  /\ WF_vars(Tick)

\* The fetch operation on its own: the connect operation stays as created.
FetchInit ==
  /\ ConnectInit
  /\ ~sync /\ ~usingUnixSocket /\ opType = "Connect"
  /\ fetch \in { FetchOperationImpl(n) : n \in 1 .. MaxStatements }

FetchNext ==
  \/ FetchRun
  \/ FetchStartQuery
  \/ FetchInitFetch
  \/ FetchFetch
  \/ FetchCompleteQuery
  \/ FetchCompleteOperationStep
  \/ FetchSocketReady
  \/ FetchResume
  \/ FetchResumeTask
  \/ FetchCancelCall
  \/ FetchNumQueriesExecuted
  \/ FetchResultSize

FetchSpec == FetchInit /\ [][FetchNext]_vars

\* The same with the scheduling the fetch relies on: the I/O thread runs the
\* loop it has entered and the tasks posted to it, the server answers a verb
\* it left pending, and the consumer that paused the fetch calls resume().
FetchLoop ==
  \/ FetchStartQuery
  \/ FetchInitFetch
  \/ FetchFetch
  \/ FetchCompleteQuery
  \/ FetchCompleteOperationStep

FetchLiveSpec ==
  /\ FetchSpec
  /\ WF_vars(FetchLoop)
  /\ WF_vars(FetchSocketReady)
  /\ WF_vars(FetchResume)
  /\ WF_vars(FetchResumeTask)

\* ------------------------------------------------ properties
Max(a, b) == IF a >= b THEN a ELSE b

\* The condition attemptFailed decides on, read after the increment.
BudgetSpent(res) ==
  \/ attempts_made_ >= conn_options_.connectAttempts
  \/ res = "Cancelled"
  \/ now > conn_options_.totalTimeout + 1

TimerHandlers == {"specializedTimeoutTriggered", "tcpConnectTimeoutTriggered"}

StateRank(st) ==
  CASE st = "Unstarted" -> 0
    [] st = "Pending" -> 1
    [] st = "Cancelling" -> 2
    [] st = "Completed" -> 3

\* C2: the state only moves forward along Unstarted, Pending, Cancelling,
\* Completed, and once it is Completed no attempt runs, no retry is queued
\* and neither state nor result changes.
C2_StateMonotone ==
  [][ /\ StateRank(state) <= StateRank(state')
      /\ state = "Completed" =>
           /\ state' = "Completed"
           /\ result' = result
           /\ attempts_made_' = attempts_made_
           /\ ev'.h \notin {"specializedRunImpl", "actionable"}
           /\ ev'.af # "retry" ]_vars

\* C3: a Completed operation has made at most max(1, connectAttempts)
\* attempts.
C3_AttemptBound ==
  state = "Completed" =>
    attempts_made_ <= Max(1, conn_options_.connectAttempts)

\* C4 as stated: an attemptFailed(r) on an operation not yet Completed leaves
\* it Completed with result r exactly when the budget is spent (attempts used
\* up, r = Cancelled, or more than totalTimeout + 1 ms elapsed); in every
\* other case the operation is not completed and a new attempt is queued.
C4_CompletesIffBudget ==
  (ev.af # "none" /\ ev.st # "Completed") =>
    /\ attempts_made_ = ev.pre + 1
    /\ IF BudgetSpent(ev.res)
       THEN state = "Completed" /\ result = ev.res
       ELSE /\ state # "Completed"
            /\ queue # << >>
            /\ queue[Len(queue)] = "specializedRunImpl"

\* C4 amended: attemptFailed(r) increments attempts_made_ and then calls
\* completeOperation(r) exactly when the budget is spent, which completes a
\* not yet Completed operation with r; in every other case it calls
\* specializedRun, which queues the next attempt and leaves the state alone,
\* or, when the event loop refuses the task, completes the operation as
\* Failed.
C4_DecisionIffBudget ==
  ev.af # "none" =>
    /\ attempts_made_ = ev.pre + 1
    /\ ev.af = "complete" <=> BudgetSpent(ev.res)
    /\ ev.af = "complete" =>
         /\ state = "Completed"
         /\ ev.st # "Completed" => result = ev.res
         /\ ~ev.rejected
    /\ ev.af = "retry" =>
         IF ev.rejected
         THEN state = "Completed" /\ result = "Failed"
         ELSE /\ state = ev.st
              /\ queue # << >>
              /\ queue[Len(queue)] = "specializedRunImpl"

\* C4 witness: the first attempt of a Pending operation failed and the retry
\* was queued.
C4_Witness ==
  /\ ev.af = "retry" /\ ~ev.rejected /\ ev.res = "Failed"
  /\ ev.st = "Pending" /\ state = "Pending" /\ attempts_made_ = 1

\* C5: with the timeout setters called before run() only, in whatever
\* order, an armed per-attempt deadline never lies beyond totalTimeout.
C5_DeadlineWithinTotal ==
  (timer # None /\ setterAt \in {"None", "Unstarted"}) =>
    timer[1] <= conn_options_.totalTimeout

InMsg(part) == \E i \in 1 .. Len(error.msg) : error.msg[i] = part

\* C6: an expiry of the per-attempt timer, and an expiry of the TCP timer
\* while the handshake is not done, records a timeout error tagged
\* TcpTimeout:0 resp. TcpTimeout:1 and goes through attemptFailed(TimedOut):
\* attempts_made_ is incremented and the retry-or-complete decision is
\* taken; an expiry of the TCP timer after the handshake does nothing.
C6_TimeoutsRouted ==
  /\ ev.h = "specializedTimeoutTriggered" =>
       /\ ev.res = "TimedOut"
       /\ InMsg("(TcpTimeout:0)") /\ ~InMsg("(TcpTimeout:1)")
  /\ ev.h = "tcpConnectTimeoutTriggered" =>
       IF ev.res = "None"
       THEN hsDone /\ ev.af = "none" /\ attempts_made_ = ev.pre
       ELSE /\ ev.res = "TimedOut"
            /\ InMsg("(TcpTimeout:1)") /\ ~InMsg("(TcpTimeout:0)")
  /\ (ev.h \in TimerHandlers /\ ev.res = "TimedOut") =>
       /\ attempts_made_ = ev.pre + 1
       /\ ev.af \in {"complete", "retry"}
       /\ ev.af = "complete" <=> BudgetSpent("TimedOut")
  /\ ev.res = "TimedOut" => ev.h \in TimerHandlers

\* C6 witness: the TCP timer expired before the handshake was done and the
\* attempt was retried.
C6_Witness ==
  /\ ev.h = "tcpConnectTimeoutTriggered" /\ ev.res = "TimedOut"
  /\ ev.af = "retry" /\ InMsg("(TcpTimeout:1)")

Stalled == ev.cbDelay >= 50000

\* C7 as stated: a timeout is recorded under the error number
\* SQ_ERRNO_CONN_TIMEOUT_LOOP_STALLED when the average callback delay has
\* reached the stall threshold and under SQ_ERRNO_CONN_TIMEOUT otherwise,
\* and the message carries the CLIENT_OVERLOADED note exactly when stalled.
C7_ErrnoIsSquangleCode ==
  ev.res = "TimedOut" =>
    /\ error.errno = IF Stalled
                     THEN "SQ_ERRNO_CONN_TIMEOUT_LOOP_STALLED"
                     ELSE "SQ_ERRNO_CONN_TIMEOUT"
    /\ InMsg("(CLIENT_OVERLOADED: cb delay Nms, N active conns)") <=> Stalled

\* C7 amended: a timeout is always recorded under the error number
\* CR_SERVER_LOST; the message opens with the tag
\* [SQ_ERRNO_CONN_TIMEOUT_LOOP_STALLED] when the average callback delay has
\* reached the stall threshold and with [SQ_ERRNO_CONN_TIMEOUT] otherwise,
\* and carries the CLIENT_OVERLOADED note exactly when stalled.
C7_TimeoutMessage ==
  ev.res = "TimedOut" =>
    /\ error.errno = "CR_SERVER_LOST"
    /\ error.msg # << >>
    /\ Head(error.msg) \in
         IF Stalled
         THEN {"[SQ_ERRNO_CONN_TIMEOUT_LOOP_STALLED](Mysql Client)Connect to host:port timed out",
               "[SQ_ERRNO_CONN_TIMEOUT_LOOP_STALLED](Mysql Client)ConnectPool to host:port timed out"}
         ELSE {"[SQ_ERRNO_CONN_TIMEOUT](Mysql Client)Connect to host:port timed out",
               "[SQ_ERRNO_CONN_TIMEOUT](Mysql Client)ConnectPool to host:port timed out"}
    /\ InMsg("(CLIENT_OVERLOADED: cb delay Nms, N active conns)") <=> Stalled

\* C7 witness: a timeout handled with the callback delay exactly at the
\* threshold.
C7_Witness ==
  /\ ev.res = "TimedOut" /\ ev.cbDelay = 50000
  /\ InMsg("(CLIENT_OVERLOADED: cb delay Nms, N active conns)")

OtherSetters ==
  {"setConnectAttempts", "setTcpTimeout", "setSniServerName", "setDscp",
   "setKillOnQueryTimeout", "setCertValidationCallback",
   "setSSLOptionsProvider", "setSSLOptionsProviderBase",
   "setDefaultQueryTimeout", "enableResetConnBeforeClose",
   "enableDelayedResetConn", "enableChangeUser"}

\* C8: every setter other than setTimeout, setTotalTimeout and
\* setConnectionOptions throws when the operation is not Unstarted.
C8_SettersRejected ==
  (ev.h \in OtherSetters /\ ev.st # "Unstarted") => ev.threw

\* C9: while the operation is Pending or Cancelling its connection options
\* do not change.
C9_OptionsFrozen ==
  [][ (state = "Pending" \/ state = "Cancelling") =>
        conn_options_' = conn_options_ ]_vars

\* C10: called for a destroyed operation the certificate validator reports
\* failure (non-zero); for a live one it returns 0 when the callback
\* accepts and 1 when it rejects.
C10_CertBridge ==
  certRet # None =>
    IF certRet[1].alive
    THEN certRet[1].ret = (IF certRet[1].cb THEN 0 ELSE 1)
    ELSE certRet[1].ret # 0

\* C13: once cancel() has been requested with no error recorded, the
\* operation completes as Cancelled: no handler error or timeout that comes
\* after the request decides the result.
C13_CancelWins ==
  [][ (state = "Cancelling" /\ error = NoError /\ state' = "Completed") =>
        result' = "Cancelled" ]_vars

C18_RetryDeadline ==
  /\ ev.af = "retry" =>
       /\ timeout_ = Min(conn_options_.timeout + now,
                         conn_options_.totalTimeout)
       /\ timeout_ <= conn_options_.totalTimeout
       /\ timeout_ - now <= conn_options_.timeout
  /\ ( /\ attempts_made_ >= 1 /\ timer # None
       /\ ev.h \in {"specializedRunImpl", "actionable"}
       /\ setterAt \in {"None", "Unstarted"} ) =>
       /\ timer[1] = timeout_
       /\ timer[1] <= conn_options_.totalTimeout

\* C18 witness: a retry at a moment when perAttemptTimeout + elapsed lies
\* beyond totalTimeout, so that the cap decides.
C18_Witness ==
  /\ ev.af = "retry" /\ ~ev.rejected /\ now >= 1
  /\ conn_options_.timeout + now > conn_options_.totalTimeout
  /\ timeout_ = conn_options_.totalTimeout

\* C19: the step that enters Completed leaves no socket registration and
\* no timer armed, and none is armed at the moment the connect callback is
\* called.
C19_CompletedHoldsNothing ==
  /\ (ev.st # "Completed" /\ state = "Completed") => ~Armed(Cur)
  /\ ~ev.cbArmed

\* C19 witness: an operation whose attempt was waiting on the socket with
\* its timers armed is completed by the cancel task.
C19_Witness ==
  /\ ev.h = "cancelTask" /\ ev.st = "Cancelling" /\ state = "Completed"
  /\ initialized /\ attempts_made_ = 0 /\ cbCount = 1

\* C20: a retry leaves nothing of the failed attempt armed, and while the
\* next attempt's task is waiting to run nothing is armed, so that every
\* timer that expires was armed by the attempt it fails.
C20_RetryReleases ==
  /\ ev.af = "retry" => ~Armed(Cur)
  /\ (\E i \in 1 .. Len(queue) : queue[i] = "specializedRunImpl") =>
       ~Armed(Cur)

\* C20 witness: an attempt that was waiting on the socket, registration and
\* timers armed, fails and is retried.
C20_Witness ==
  /\ ev.af = "retry" /\ ~ev.rejected /\ ev.h = "actionable"
  /\ ev.st = "Pending" /\ queue = << "specializedRunImpl" >>

\* ------------------------------------------------ fetch properties
VerbsOf(action) ==
  CASE action = "StartQuery" -> {"runQuery", "nextResult"}
    [] action = "InitFetch" -> {"getResult"}
    [] action = "Fetch" -> {"fetchRow"}
    [] OTHER -> {}

\* C11: no handler verb is issued while the active action is
\* WaitForConsumer, and a paused fetch has neither the loop running nor the
\* socket registered; pauseForConsumer saves the action that was active and
\* makes WaitForConsumer the active one; resumeImpl restores the saved
\* action, the first block to run after it is that action's, and the verb
\* it issues is that action's verb.
C11_PauseSafety ==
  LET e == fetch.fev
  IN  /\ e.verb # "none" =>
           e.action # "WaitForConsumer" /\ e.verb \in VerbsOf(e.action)
      /\ isPaused(fetch) => ~fetch.running /\ ~fetch.waiting
      /\ e.cb = "pause" =>
           isPaused(fetch) /\ fetch.paused_action_ = e.atNotify
      /\ e.h = "resumeImpl" => fetch.active_fetch_action_ = e.paused
      /\ e.resumedAs # "none" =>
           /\ e.h = e.resumedAs
           /\ e.verb # "none" => e.verb \in VerbsOf(e.resumedAs)

\* C11 witness: a fetch paused in notifyRowsReady was resumed and the first
\* verb after the resume is fetchRow.
C11_Witness ==
  /\ fetch.fev.resumedAs = "Fetch" /\ fetch.fev.verb = "fetchRow"
  /\ fetch.fev.h = "Fetch"

Answered == {"InitQuery", "RowsReady", "QuerySuccess"}

KindRank(kind) ==
  CASE kind = "InitQuery" -> 0
    [] kind = "RowsReady" -> 1
    [] kind = "QuerySuccess" -> 2

\* C12: in the sequence of notifications, statement numbers never go back;
\* within a statement InitQuery comes once and first, QuerySuccess once and
\* last, RowsReady in between; every notification of a statement after the
\* first comes after the QuerySuccess of the statement before it.
C12_NotificationOrder ==
  LET L == fetch.notifications
      P == { p \in 1 .. Len(L) : L[p].kind \in Answered }
  IN  /\ \A p \in P, q \in P :
           p < q =>
             /\ L[p].query <= L[q].query
             /\ L[p].query = L[q].query =>
                  /\ KindRank(L[p].kind) <= KindRank(L[q].kind)
                  /\ L[q].kind # "InitQuery"
                  /\ L[p].kind # "QuerySuccess"
      /\ \A q \in P :
           /\ L[q].query >= 1
           /\ L[q].kind # "InitQuery" =>
                \E p \in P : /\ p < q /\ L[p].kind = "InitQuery"
                             /\ L[p].query = L[q].query
           /\ L[q].query > 1 =>
                \E p \in P : /\ p < q /\ L[p].kind = "QuerySuccess"
                             /\ L[p].query = L[q].query - 1

\* C12 witness: a fetch of two statements has succeeded after delivering
\* rows of the first statement and rows of the second.
C12_Witness ==
  LET L == fetch.notifications
  IN  /\ fetch.state = "Completed" /\ fetch.result = "Succeeded"
      /\ \E p, q \in 1 .. Len(L) :
           /\ L[p].kind = "RowsReady" /\ L[p].query = 1
           /\ L[q].kind = "RowsReady" /\ L[q].query = 2

\* The action a fetch carries out next.
NextAction(f) ==
  IF isPaused(f) THEN f.paused_action_ ELSE f.active_fetch_action_

QuerySuccesses ==
  Cardinality({ p \in 1 .. Len(fetch.notifications) :
                  fetch.notifications[p].kind = "QuerySuccess" })

\* C15: whenever the operation is not Pending, num_queries_executed_, and
\* with it what numQueriesExecuted() returns, is the number of QuerySuccess
\* notifications delivered; a fetch that succeeded counts every statement.
C15_Accounting ==
  /\ fetch.state # "Pending" =>
       fetch.num_queries_executed_ = QuerySuccesses
  /\ (fetch.fev.h = "numQueriesExecuted" /\ ~fetch.fev.threw) =>
       fetch.fev.ret = Some(QuerySuccesses)
  /\ fetch.result = "Succeeded" =>
       fetch.num_queries_executed_ = fetch.statements

\* C15 witness: numQueriesExecuted() returns 1 for a fetch of two statements
\* whose second statement failed.
C15_Witness ==
  /\ fetch.fev.h = "numQueriesExecuted" /\ fetch.fev.ret = Some(1)
  /\ fetch.state = "Completed" /\ fetch.result = "Failed"
  /\ fetch.num_current_query_ = 2

\* C16: numQueriesExecuted() throws exactly in Pending and otherwise
\* returns the counter; resultSize() throws exactly in Unstarted and
\* otherwise returns the size; neither changes the operation.
C16_AccessorStates ==
  LET e == fetch.fev
  IN  /\ e.h = "numQueriesExecuted" =>
           /\ e.threw <=> fetch.state = "Pending"
           /\ ~e.threw => e.ret = Some(fetch.num_queries_executed_)
           /\ e.threw => e.ret = None
           /\ e.unchanged
      /\ e.h = "resultSize" =>
           /\ e.threw <=> fetch.state = "Unstarted"
           /\ ~e.threw => e.ret = Some(fetch.total_result_size_)
           /\ e.threw => e.ret = None
           /\ e.unchanged

\* C16 witness: numQueriesExecuted() returns for a Cancelling fetch that
\* still waits for the socket.
C16_Witness ==
  /\ fetch.fev.h = "numQueriesExecuted" /\ ~fetch.fev.threw
  /\ fetch.state = "Cancelling" /\ fetch.waiting

\* ------------------------------------------------ connect properties, continued
\* C21: an actionable() that went past the look at the handshake with the
\* handshake done, or on a Unix socket, leaves no TCP-handshake timer armed;
\* a TCP timer expiry fails the attempt only when the handshake is not done,
\* and an expiry that finds the handshake done leaves attempts_made_, the
\* recorded error, the state and the result as they were.
C21_TcpTimerOnlyBeforeHandshake ==
  /\ [](( /\ ev.h = "actionable" \/ ev.h = "specializedRunImpl"
          /\ ev.res # "Failed"
          /\ hsDone \/ usingUnixSocket )
        => tcp_timeout_handler_ = None)
  /\ [][ (tcp_timeout_handler_ # None /\ ev'.h = "tcpConnectTimeoutTriggered")
         => /\ ev'.res # "None" => ~hsDone
            /\ hsDone => /\ attempts_made_' = attempts_made_
                         /\ error' = error
                         /\ state' = state
                         /\ result' = result ]_vars

\* C21 witness: the TCP timer has expired on a connection whose handshake
\* was done, and the handler has returned without failing the attempt.
C21_Witness ==
  /\ ev.h = "tcpConnectTimeoutTriggered" /\ hsDone
  /\ ev.res = "None" /\ ev.pre = attempts_made_

\* C22: when runInThread refuses the task of run() or of a retry, the
\* operation is completed as Failed by a completion that runs to its end,
\* no attempt is queued and attempts_made_ is not incremented for the
\* refused attempt.
C22_RejectedTaskFails ==
  ev.rejected =>
    /\ state = "Completed" /\ result = "Failed"
    /\ ~ev.dcheck
    /\ ev.h = "run" => attempts_made_ = 0 /\ queue = << >>
    /\ ev.h # "run" => ev.af = "retry" /\ attempts_made_ = ev.pre + 1

\* C23: an actionable() that found the socket descriptor invalid, on DONE or
\* on PENDING, records SQ_INITIALIZATION_FAILED, reports the attempt as
\* Failed, leaves the descriptor unregistered, and the operation is
\* completed with result Failed.
C23_InvalidDescriptorFails ==
  ( /\ ev.h = "actionable" \/ ev.h = "specializedRunImpl"
    /\ ev.res = "Failed"
    /\ error.errno = "SQ_INITIALIZATION_FAILED"
    /\ ev.st \in {"Pending", "Cancelling"} )
  => /\ ~registered
     /\ state = "Completed" /\ result = "Failed"

\* C24: once an operation whose connection was initialized has completed
\* other than by cancellation, logConnectionSuccess was called once if the
\* result is Succeeded and not at all otherwise, and logConnectionFailure
\* once for each of the other attempts made.
C24_OneLogPerAttempt ==
  (state = "Completed" /\ initialized /\ result # "Cancelled") =>
    /\ logSucc = (IF result = "Succeeded" THEN 1 ELSE 0)
    /\ logFail = attempts_made_ - logSucc

\* C25: a TLS session is stored only by an operation of type Connect with
\* result Succeeded, an initialized connection and an SSL options provider,
\* and such an operation, once completed, has stored it.
C25_SessionStoredOnlyOnConnectSuccess ==
  /\ sessionStored =>
       /\ opType = "Connect" /\ result = "Succeeded"
       /\ initialized /\ conn_options_.sslOptionsProvider
  /\ ( /\ state = "Completed" /\ result = "Succeeded"
       /\ opType = "Connect" /\ initialized
       /\ conn_options_.sslOptionsProvider ) => sessionStored

\* C25 witness: a Connect operation with a provider has succeeded and
\* stored the session.
C25_Witness ==
  /\ sessionStored /\ state = "Completed" /\ result = "Succeeded"
  /\ ev.res = "Succeeded"

====
